---- MODULE Spec2Model ----
(***************************************************************************)
(* Secure Transport channel adapter of irssi (network-macosx.c).           *)
(*                                                                         *)
(* Specifications over one set of variables:                               *)
(*   SpecRelay      the byte relay callbacks _SSLReadFunction and          *)
(*                  _SSLWriteFunction, one raw read()/write() per step,    *)
(*                  the raw calls recorded;                                *)
(*   SpecRelayLive  the same loops followed without a bound, under weak    *)
(*                  fairness of the running callback;                      *)
(*   Spec           the channel: net_connect_ip_ssl, irssi_ssl_handshake,  *)
(*                  irssi_ssl_read, irssi_ssl_write, irssi_ssl_close and   *)
(*                  irssi_ssl_free over the Secure Transport engine;       *)
(*   SpecData       the channel's write path with the descriptor's send    *)
(*                  buffer filling and draining;                           *)
(*   SpecFrame      the operations passed through to the raw channel.      *)
(***************************************************************************)
EXTENDS Integers, Sequences, FiniteSets, TLC

\* ------------------------------------------------------------------ bounds

\* Largest buffer length handed to a relay callback.
MaxLen == 8193
\* Raw read()/write() calls followed for one message of the relay.
MaxRawOps == 4
\* Bytes of one record of the engine's record layer.
RecLen == 2
\* Largest buffer a caller hands to irssi_ssl_read or irssi_ssl_write.
MaxBuf == 2
\* Ciphertext bytes the engine is followed producing.
MaxOut == 2
\* Bytes the descriptor's send buffer holds.
MaxSpace == 2
\* Successful SSLHandshake steps followed on one channel.
MaxStepOk == 2

\* ------------------------------------------------------- program constants

\* The chunk limit of _SSLWriteFunction.
ChunkMax == 4096

\* ---------------------------------------------------------------- helpers

Min(a, b) == IF a < b THEN a ELSE b

RECURSIVE SumSeq(_)
SumSeq(s) == IF s = <<>> THEN 0 ELSE Head(s) + SumSeq(Tail(s))

\* ------------------------------------------------------------------- state

VARIABLES
  rpc,          \* relay: "idle", or the callback whose loop is running
  rfn,          \* relay: the callback called last ("none" before the first)
  rlen,         \* relay: the local len
  rdataLength,  \* relay: *dataLength, the caller's in/out length
  rreq,         \* relay: *dataLength as it was at the call
  rstatus,      \* relay: the OSStatus returned ("running" inside the call)
  rbase,        \* relay: offset of data within the caller's whole message
  rcallNo,      \* relay: number of this call among the calls for the message
  rcalls,       \* relay: the raw calls made for the message, in order:
                \*        [call, off, asked, res, errno], off counted from the
                \*        start of the message
  rops          \* relay: the raw calls made in the running call, modulo 2,
                \*        where they are followed without a bound

relayVars == <<rpc, rfn, rlen, rdataLength, rreq, rstatus, rbase, rcallNo, rcalls,
               rops>>

VARIABLES
  openRet,      \* what net_connect_ip_ssl returned: "none" before the call,
                \* "channel", "NULL", or "abort" (g_error ended the process)
  openWhy,      \* the exit of net_connect_ip_ssl that was taken
  chan,         \* the GIOSSLChannel: "none", "live", "freed"
  closed,       \* io_close was called on the channel
  cfd,          \* channel->fd
  cverify,      \* channel->verify
  ctxCreated,   \* contexts made by SSLNewContext
  ctxDisposed,  \* calls of SSLDisposeContext on the context
  rawCreated,   \* raw channels made by net_connect_ip
  rawReleased,  \* calls of g_io_channel_unref on the raw channel
  eng,          \* the context's session: "none", "new", "handshaking",
                \* "connected", "graceful", "failed"
  lifecycle,    \* "none", "Unestablished", "Handshaking", "Established",
                \* "Failed": the last result of irssi_ssl_handshake
  rejected,     \* the trust panel has refused the peer's chain
  nStepOk,      \* times SSLHandshake returned noErr to irssi_ssl_handshake
  nEval,        \* calls of SecTrustEvaluate
  last,         \* the last call into the channel, what it met and returned
  rawTouched,   \* a read() or write() was made on the descriptor
  peerOut,      \* ciphertext the peer has still to send
  wireIn,       \* ciphertext arrived at the descriptor, not yet read
  partial,      \* engine: ciphertext of the record being read
  ready,        \* engine: plaintext decrypted, not yet copied to a caller
  engOut,       \* the plaintext SSLRead copied into callers' buffers
  rdDelivered,  \* the plaintext irssi_ssl_read reported to its callers
  appSent,      \* bytes of its stream the caller was told were written
  wq,           \* engine: ciphertext queued for the descriptor
  wireOut,      \* ciphertext the descriptor took
  sockSpace,    \* bytes the descriptor takes before write() would block
  sockErr       \* the descriptor fails every read() and write()

lifeVars == <<openRet, openWhy, chan, closed, cfd, cverify, ctxCreated,
              ctxDisposed, rawCreated, rawReleased>>
hsVars == <<lifecycle, rejected, nStepOk, nEval>>
readVars == <<peerOut, wireIn, partial, ready, engOut, rdDelivered>>
writeVars == <<appSent, wq, wireOut, sockSpace>>
chanVars == <<lifeVars, hsVars, eng, last, rawTouched, readVars, writeVars, sockErr>>

vars == <<relayVars, chanVars>>

\* ------------------------------------------------- the raw descriptor

\* What one read() or write() of `asked` bytes can return: a byte count in
\* 0..asked, or -1 with errno set.
RawCounts(asked) == {k \in {0, 1, 2, asked - 1, asked} : 0 <= k /\ k <= asked}

RawResults(asked) ==
  {[res |-> k, errno |-> "none"] : k \in RawCounts(asked)}
    \cup {[res |-> -1, errno |-> e] : e \in {"EAGAIN", "EIO"}}

\* --------------------------------------------------------- the byte relay

\* _SSLReadFunction: the length asked of one read().
ReadAsked(len, dataLength) == dataLength - len

\* Mutant of SSLReadFunctionIter: a read() of zero bytes is taken for a failure.
SSLReadFunctionIterZeroFails(len, dataLength, res, errno) ==
  IF res = -1 \/ res = 0
    THEN IF errno = "EAGAIN"
           THEN [ret |-> TRUE, status |-> "errSSLWouldBlock",
                 len |-> len, dataLength |-> len]
           ELSE [ret |-> TRUE, status |-> "errSSLInternal",
                 len |-> len, dataLength |-> dataLength]
    ELSE [ret |-> FALSE, status |-> "running",
          len |-> len + res, dataLength |-> dataLength]

\* _SSLReadFunction: the loop body after read() returned res.
SSLReadFunctionIter(len, dataLength, res, errno) ==
  IF res = -1
    THEN IF errno = "EAGAIN"
           THEN [ret |-> TRUE, status |-> "errSSLWouldBlock",
                 len |-> len, dataLength |-> len]
           ELSE [ret |-> TRUE, status |-> "errSSLInternal",
                 len |-> len, dataLength |-> dataLength]
    ELSE [ret |-> FALSE, status |-> "running",
          len |-> len + res, dataLength |-> dataLength]

\* Mutant of WriteChunk: all that remains is offered to one write().
WriteChunkWhole(len, dataLength) == dataLength - len

\* _SSLWriteFunction: the length asked of one write().
WriteChunk(len, dataLength) ==
  IF dataLength - len < ChunkMax THEN dataLength - len ELSE ChunkMax

\* Mutant of SSLWriteFunctionIter: the whole chunk is taken as written.
SSLWriteFunctionIterFullChunk(len, dataLength, res, errno) ==
  IF res = -1
    THEN IF errno = "EAGAIN"
           THEN [ret |-> TRUE, status |-> "errSSLWouldBlock",
                 len |-> len, dataLength |-> len]
           ELSE [ret |-> TRUE, status |-> "errSSLInternal",
                 len |-> len, dataLength |-> dataLength]
    ELSE [ret |-> FALSE, status |-> "running",
          len |-> len + WriteChunk(len, dataLength), dataLength |-> dataLength]

\* Mutant of SSLWriteFunctionIter: the count is written back on every failure.
SSLWriteFunctionIterErrorWritesBack(len, dataLength, res, errno) ==
  IF res = -1
    THEN IF errno = "EAGAIN"
           THEN [ret |-> TRUE, status |-> "errSSLWouldBlock",
                 len |-> len, dataLength |-> len]
           ELSE [ret |-> TRUE, status |-> "errSSLInternal",
                 len |-> len, dataLength |-> len]
    ELSE [ret |-> FALSE, status |-> "running",
          len |-> len + res, dataLength |-> dataLength]

\* _SSLWriteFunction: the loop body after write() returned res.
SSLWriteFunctionIter(len, dataLength, res, errno) ==
  IF res = -1
    THEN IF errno = "EAGAIN"
           THEN [ret |-> TRUE, status |-> "errSSLWouldBlock",
                 len |-> len, dataLength |-> len]
           ELSE [ret |-> TRUE, status |-> "errSSLInternal",
                 len |-> len, dataLength |-> dataLength]
    ELSE [ret |-> FALSE, status |-> "running",
          len |-> len + res, dataLength |-> dataLength]

\* Both callbacks: the loop condition failed; *dataLength = len; return noErr.
RelayExit(len, dataLength) ==
  [ret |-> TRUE, status |-> "noErr", len |-> len, dataLength |-> len]

\* ------------------------------------------- the descriptor of a channel

Take(s, n) == SubSeq(s, 1, n)
Drop(s, n) == SubSeq(s, n + 1, Len(s))

\* read() on the non-blocking descriptor with the bytes `wire` arrived.
SockRead(wire, asked, err) ==
  IF err THEN [res |-> -1, errno |-> "EIO"]
  ELSE IF wire = <<>> THEN [res |-> -1, errno |-> "EAGAIN"]
  ELSE [res |-> Min(Len(wire), asked), errno |-> "none"]

\* write() on the non-blocking descriptor with room for `space` bytes.
SockWrite(space, asked, err) ==
  IF err THEN [res |-> -1, errno |-> "EIO"]
  ELSE IF space = 0 THEN [res |-> -1, errno |-> "EAGAIN"]
  ELSE [res |-> Min(space, asked), errno |-> "none"]

\* _SSLReadFunction run to its return on the channel's descriptor: the loop of
\* SSLReadFunctionIter over read(). got: the bytes placed at data[0..).
RECURSIVE SSLReadFunction(_, _, _, _, _)
SSLReadFunction(len, dataLength, wire, err, got) ==
  IF len < dataLength
    THEN LET o == SockRead(wire, ReadAsked(len, dataLength), err)
             r == SSLReadFunctionIter(len, dataLength, o.res, o.errno)
         IN  IF r.ret
               THEN [status |-> r.status, dataLength |-> r.dataLength,
                     wire |-> wire, got |-> got]
               ELSE SSLReadFunction(r.len, r.dataLength, Drop(wire, o.res), err,
                                    got \o Take(wire, o.res))
    ELSE [status |-> RelayExit(len, dataLength).status,
          dataLength |-> RelayExit(len, dataLength).dataLength,
          wire |-> wire, got |-> got]

\* _SSLWriteFunction run to its return on the channel's descriptor: the loop of
\* SSLWriteFunctionIter over write(). sent: the bytes the descriptor took.
RECURSIVE SSLWriteFunction(_, _, _, _, _, _)
SSLWriteFunction(len, dataLength, data, space, err, sent) ==
  IF len < dataLength
    THEN LET o == SockWrite(space, WriteChunk(len, dataLength), err)
             r == SSLWriteFunctionIter(len, dataLength, o.res, o.errno)
         IN  IF r.ret
               THEN [status |-> r.status, dataLength |-> r.dataLength,
                     space |-> space, sent |-> sent]
               ELSE SSLWriteFunction(r.len, r.dataLength, data, space - o.res, err,
                                     sent \o SubSeq(data, len + 1, len + o.res))
    ELSE [status |-> RelayExit(len, dataLength).status,
          dataLength |-> RelayExit(len, dataLength).dataLength,
          space |-> space, sent |-> sent]

\* ------------------------------------------- the Secure Transport engine

\* The record layer's cipher, byte by byte.
Encrypt(p) == p + 100
Decrypt(c) == c - 100
EncryptSeq(s) == [i \in 1..Len(s) |-> Encrypt(s[i])]
DecryptSeq(s) == [i \in 1..Len(s) |-> Decrypt(s[i])]

\* A record whose plaintext starts with 0 is the close_notify alert.
CloseRecord == [i \in 1..RecLen |-> 0]
IsCloseRecord(plain) == plain[1] = 0

\* What SSLHandshake can return for a session in state e.
HandshakeOutcomes(e) ==
  CASE e = "connected" -> {"noErr"}
    [] e = "graceful" -> {"errSSLClosedGraceful"}
    [] e = "failed" -> {"errSSLClosedAbort"}
    [] OTHER -> {"noErr", "errSSLWouldBlock", "errSSLProtocol"}

\* The session after SSLHandshake returned status.
AfterHandshake(e, status) ==
  IF e \in {"connected", "graceful", "failed"} THEN e
  ELSE CASE status = "noErr" -> "connected"
         [] status = "errSSLWouldBlock" -> "handshaking"
         [] OTHER -> "failed"

\* SSLRead and SSLWrite first drive a handshake in progress: the step's
\* outcomes, "ready" for a session that needs none.
IoHandshakeOutcomes(e) ==
  IF e = "handshaking" THEN HandshakeOutcomes(e) ELSE {"ready"}

\* SSLRead(context, buf, len, &processed) of a connected session: the bytes
\* left over from the last record first, then at most one more record, read
\* through _SSLReadFunction.
SSLReadConnected(len) ==
  LET k == Min(len, Len(ready))
      out1 == Take(ready, k)
      ready1 == Drop(ready, k)
      base == [status |-> "noErr", processed |-> k, out |-> out1, eng |-> eng,
               partial |-> partial, ready |-> ready1, wire |-> wireIn,
               raw |-> FALSE]
  IN  IF len - k = 0 THEN base
      ELSE
        LET r == SSLReadFunction(0, RecLen - Len(partial), wireIn, sockErr, <<>>)
            rec == DecryptSeq(partial \o r.got)
            m == Min(len - k, RecLen)
            io == [base EXCEPT !.raw = TRUE, !.wire = r.wire]
        IN  CASE r.status = "errSSLWouldBlock" ->
                   [io EXCEPT !.status = "errSSLWouldBlock",
                              !.partial = partial \o Take(r.got, r.dataLength)]
              [] r.status = "errSSLInternal" ->
                   [io EXCEPT !.status = "errSSLInternal", !.eng = "failed"]
              [] OTHER ->
                   IF IsCloseRecord(rec)
                     THEN [io EXCEPT !.status = "errSSLClosedGraceful",
                                     !.eng = "graceful", !.partial = <<>>]
                     ELSE [io EXCEPT !.processed = k + m,
                                     !.out = out1 \o Take(rec, m),
                                     !.partial = <<>>,
                                     !.ready = Drop(rec, m)]

\* SSLRead in any state of the session; hs is the outcome of the handshake
\* step it drives first.
SSLRead(len, hs) ==
  LET stay == [status |-> "noErr", processed |-> 0, out |-> <<>>, eng |-> eng,
               partial |-> partial, ready |-> ready, wire |-> wireIn,
               raw |-> FALSE]
  IN  CASE eng = "new" -> [stay EXCEPT !.status = "badReqErr"]
        [] eng = "graceful" -> [stay EXCEPT !.status = "errSSLClosedGraceful"]
        [] eng = "failed" -> [stay EXCEPT !.status = "errSSLClosedAbort"]
        [] eng = "handshaking" /\ hs # "noErr" ->
             [stay EXCEPT !.status = hs, !.eng = AfterHandshake(eng, hs),
                          !.raw = TRUE]
        [] OTHER -> [SSLReadConnected(len) EXCEPT
                       !.eng = IF @ = "handshaking" THEN "connected" ELSE @,
                       !.raw = @ \/ eng = "handshaking"]

\* SSLWrite(context, buf, len, &processed) of a connected session: the queue
\* is flushed through _SSLWriteFunction, then buf is encrypted onto the queue,
\* processed is set to len, and the queue is flushed again.
SSLWriteConnected(buf) ==
  LET s1 == SSLWriteFunction(0, Len(wq), wq, sockSpace, sockErr, <<>>)
      a1 == IF s1.status = "errSSLInternal" THEN 0 ELSE s1.dataLength
      wq2 == Drop(wq, a1) \o EncryptSeq(buf)
      s2 == SSLWriteFunction(0, Len(wq2), wq2, s1.space, sockErr, <<>>)
      a2 == IF s2.status = "errSSLInternal" THEN 0 ELSE s2.dataLength
  IN  IF s1.status # "noErr"
        THEN [status |-> s1.status, processed |-> 0, set |-> FALSE, eng |-> eng,
              wq |-> Drop(wq, a1), wireOut |-> wireOut \o s1.sent,
              space |-> s1.space, raw |-> wq # <<>>]
        ELSE [status |-> s2.status, processed |-> Len(buf), set |-> TRUE,
              eng |-> IF s2.status = "errSSLInternal" THEN "failed" ELSE eng,
              wq |-> Drop(wq2, a2), wireOut |-> wireOut \o s1.sent \o s2.sent,
              space |-> s2.space, raw |-> TRUE]

\* SSLWrite in any state of the session.
SSLWrite(buf, hs) ==
  LET stay == [status |-> "noErr", processed |-> 0, set |-> FALSE, eng |-> eng,
               wq |-> wq, wireOut |-> wireOut, space |-> sockSpace,
               raw |-> FALSE]
  IN  CASE eng = "new" -> [stay EXCEPT !.status = "badReqErr"]
        [] eng = "graceful" -> [stay EXCEPT !.status = "errSSLClosedGraceful"]
        [] eng = "failed" -> [stay EXCEPT !.status = "errSSLClosedAbort"]
        [] eng = "handshaking" /\ hs # "noErr" ->
             [stay EXCEPT !.status = hs, !.eng = AfterHandshake(eng, hs),
                          !.raw = TRUE]
        [] OTHER -> [SSLWriteConnected(buf) EXCEPT
                       !.eng = IF @ = "handshaking" THEN "connected" ELSE @]

\* ------------------------------------------------------------ the channel

\* irssi_ssl_read: the GIOStatus and *ret for SSLRead's status and processed.
IrssiSslRead(status, processed) ==
  IF status = "noErr" THEN [status |-> "G_IO_STATUS_NORMAL", ret |-> processed]
  ELSE IF status = "errSSLWouldBlock" THEN [status |-> "G_IO_STATUS_AGAIN", ret |-> 0]
  ELSE IF status = "errSSLClosedGraceful" THEN [status |-> "G_IO_STATUS_EOF", ret |-> 0]
  ELSE [status |-> "G_IO_STATUS_ERROR", ret |-> 0]

\* Mutant of IrssiSslWrite: a graceful close is reported as end of file, as
\* irssi_ssl_read does.
IrssiSslWriteReportsEof(status, processed) ==
  IF status = "noErr" THEN [status |-> "G_IO_STATUS_NORMAL", ret |-> processed]
  ELSE IF status = "errSSLWouldBlock" THEN [status |-> "G_IO_STATUS_AGAIN", ret |-> 0]
  ELSE IF status = "errSSLClosedGraceful" THEN [status |-> "G_IO_STATUS_EOF", ret |-> 0]
  ELSE [status |-> "G_IO_STATUS_ERROR", ret |-> 0]

\* irssi_ssl_write: the GIOStatus and *ret for SSLWrite's status and processed.
IrssiSslWrite(status, processed) ==
  IF status = "noErr" THEN [status |-> "G_IO_STATUS_NORMAL", ret |-> processed]
  ELSE IF status = "errSSLWouldBlock" THEN [status |-> "G_IO_STATUS_AGAIN", ret |-> 0]
  ELSE [status |-> "G_IO_STATUS_ERROR", ret |-> 0]

\* Mutant of IrssiSslFree: the context is not disposed.
IrssiSslFreeKeepsContext == [rawUnref |-> 1, dispose |-> 0]

\* irssi_ssl_free: the releases it makes.
IrssiSslFree == [rawUnref |-> 1, dispose |-> 1]

\* irssi_ssl_close: the raw channel's io_close, which closes the descriptor.
IrssiSslClose == [fdClose |-> TRUE]

\* What the zero-timeout select() on the descriptor can return.
SelectResults ==
  {[ret |-> 1, errno |-> "none"], [ret |-> 0, errno |-> "none"],
   [ret |-> -1, errno |-> "EAGAIN"], [ret |-> -1, errno |-> "EBADF"]}

\* What SSLCopyPeerTrust and SecTrustEvaluate can return.
CopyTrustResults == {"noErr", "errSSLBadCert"}
EvaluateResults == {"noErr", "errSecParam"}

\* The SecTrustResultType values SecTrustEvaluate can leave.
TrustResults ==
  {"kSecTrustResultProceed", "kSecTrustResultUnspecified",
   "kSecTrustResultDeny", "kSecTrustResultConfirm",
   "kSecTrustResultRecoverableTrustFailure"}

\* The classes irssi_ssl_handshake accepts without asking.
AcceptableTrust == {"kSecTrustResultProceed", "kSecTrustResultUnspecified"}

\* What irssibridge_present_trust_panel can return; 1 is NSOKButton.
PanelCodes == {1, 0, -1}

\* Mutant of IrssiSslHandshake: the trust is evaluated before the step's status is
\* looked at.
IrssiSslHandshakeEvalFirst(sel, step, copy, eval, trust, code) ==
  LET t0 == [op |-> "handshake", sel |-> sel, step |-> "none", copy |-> "none",
             eval |-> "none", trust |-> "none", code |-> 0, nCopy |-> 0,
             nEval |-> 0, nPanel |-> 0, nRelease |-> 0, ret |-> 0]
      t1 == [t0 EXCEPT !.step = step]
      t2 == [t1 EXCEPT !.copy = copy, !.nCopy = 1]
      t3 == [t2 EXCEPT !.eval = eval, !.nEval = 1]
      t4 == [t3 EXCEPT !.trust = trust]
      t5 == [t4 EXCEPT !.code = code, !.nPanel = 1]
  IN  IF sel.ret < 1
        THEN [t0 EXCEPT !.ret = IF sel.ret = 0 \/ sel.errno = "EAGAIN" THEN 3 ELSE -1]
      ELSE IF step # "noErr"
        THEN [t1 EXCEPT !.nCopy = 1, !.nEval = 1, !.nRelease = 1,
                        !.ret = IF step = "errSSLWouldBlock" THEN 1 ELSE -1]
      ELSE IF copy # "noErr"
        THEN [t2 EXCEPT !.ret = -1]
      ELSE IF eval # "noErr"
        THEN [t3 EXCEPT !.nRelease = 1, !.ret = -1]
      ELSE IF trust \in AcceptableTrust
        THEN [t4 EXCEPT !.nRelease = 1, !.ret = 0]
      ELSE IF code # 1
        THEN [t5 EXCEPT !.nRelease = 1, !.ret = -1]
      ELSE [t5 EXCEPT !.nRelease = 1, !.ret = 0]


\* Mutant of IrssiSslHandshake: only kSecTrustResultProceed is accepted without asking.
IrssiSslHandshakeAsksUnspecified(sel, step, copy, eval, trust, code) ==
  LET t0 == [op |-> "handshake", sel |-> sel, step |-> "none", copy |-> "none",
             eval |-> "none", trust |-> "none", code |-> 0, nCopy |-> 0,
             nEval |-> 0, nPanel |-> 0, nRelease |-> 0, ret |-> 0]
      t1 == [t0 EXCEPT !.step = step]
      t2 == [t1 EXCEPT !.copy = copy, !.nCopy = 1]
      t3 == [t2 EXCEPT !.eval = eval, !.nEval = 1]
      t4 == [t3 EXCEPT !.trust = trust]
      t5 == [t4 EXCEPT !.code = code, !.nPanel = 1]
  IN  IF sel.ret < 1
        THEN [t0 EXCEPT !.ret = IF sel.ret = 0 \/ sel.errno = "EAGAIN" THEN 3 ELSE -1]
      ELSE IF step # "noErr"
        THEN [t1 EXCEPT !.ret = IF step = "errSSLWouldBlock" THEN 1 ELSE -1]
      ELSE IF copy # "noErr"
        THEN [t2 EXCEPT !.ret = -1]
      ELSE IF eval # "noErr"
        THEN [t3 EXCEPT !.nRelease = 1, !.ret = -1]
      ELSE IF trust = "kSecTrustResultProceed"
        THEN [t4 EXCEPT !.nRelease = 1, !.ret = 0]
      ELSE IF code # 1
        THEN [t5 EXCEPT !.nRelease = 1, !.ret = -1]
      ELSE [t5 EXCEPT !.nRelease = 1, !.ret = 0]


\* Mutant of IrssiSslHandshake: every panel code but 0 accepts.
IrssiSslHandshakeNonzeroAccepts(sel, step, copy, eval, trust, code) ==
  LET t0 == [op |-> "handshake", sel |-> sel, step |-> "none", copy |-> "none",
             eval |-> "none", trust |-> "none", code |-> 0, nCopy |-> 0,
             nEval |-> 0, nPanel |-> 0, nRelease |-> 0, ret |-> 0]
      t1 == [t0 EXCEPT !.step = step]
      t2 == [t1 EXCEPT !.copy = copy, !.nCopy = 1]
      t3 == [t2 EXCEPT !.eval = eval, !.nEval = 1]
      t4 == [t3 EXCEPT !.trust = trust]
      t5 == [t4 EXCEPT !.code = code, !.nPanel = 1]
  IN  IF sel.ret < 1
        THEN [t0 EXCEPT !.ret = IF sel.ret = 0 \/ sel.errno = "EAGAIN" THEN 3 ELSE -1]
      ELSE IF step # "noErr"
        THEN [t1 EXCEPT !.ret = IF step = "errSSLWouldBlock" THEN 1 ELSE -1]
      ELSE IF copy # "noErr"
        THEN [t2 EXCEPT !.ret = -1]
      ELSE IF eval # "noErr"
        THEN [t3 EXCEPT !.nRelease = 1, !.ret = -1]
      ELSE IF trust \in AcceptableTrust
        THEN [t4 EXCEPT !.nRelease = 1, !.ret = 0]
      ELSE IF code = 0
        THEN [t5 EXCEPT !.nRelease = 1, !.ret = -1]
      ELSE [t5 EXCEPT !.nRelease = 1, !.ret = 0]


\* Mutant of IrssiSslHandshake: a select() that reports nothing writable is not acted on.
IrssiSslHandshakeNoProbe(sel, step, copy, eval, trust, code) ==
  LET t0 == [op |-> "handshake", sel |-> sel, step |-> "none", copy |-> "none",
             eval |-> "none", trust |-> "none", code |-> 0, nCopy |-> 0,
             nEval |-> 0, nPanel |-> 0, nRelease |-> 0, ret |-> 0]
      t1 == [t0 EXCEPT !.step = step]
      t2 == [t1 EXCEPT !.copy = copy, !.nCopy = 1]
      t3 == [t2 EXCEPT !.eval = eval, !.nEval = 1]
      t4 == [t3 EXCEPT !.trust = trust]
      t5 == [t4 EXCEPT !.code = code, !.nPanel = 1]
  IN  IF sel.ret < 0
        THEN [t0 EXCEPT !.ret = IF sel.ret = 0 \/ sel.errno = "EAGAIN" THEN 3 ELSE -1]
      ELSE IF step # "noErr"
        THEN [t1 EXCEPT !.ret = IF step = "errSSLWouldBlock" THEN 1 ELSE -1]
      ELSE IF copy # "noErr"
        THEN [t2 EXCEPT !.ret = -1]
      ELSE IF eval # "noErr"
        THEN [t3 EXCEPT !.nRelease = 1, !.ret = -1]
      ELSE IF trust \in AcceptableTrust
        THEN [t4 EXCEPT !.nRelease = 1, !.ret = 0]
      ELSE IF code # 1
        THEN [t5 EXCEPT !.nRelease = 1, !.ret = -1]
      ELSE [t5 EXCEPT !.nRelease = 1, !.ret = 0]


\* Mutant of IrssiSslHandshake: the refusal of the panel returns without
\* releasing the trust object.
IrssiSslHandshakeLeaksOnReject(sel, step, copy, eval, trust, code) ==
  LET t0 == [op |-> "handshake", sel |-> sel, step |-> "none", copy |-> "none",
             eval |-> "none", trust |-> "none", code |-> 0, nCopy |-> 0,
             nEval |-> 0, nPanel |-> 0, nRelease |-> 0, ret |-> 0]
      t1 == [t0 EXCEPT !.step = step]
      t2 == [t1 EXCEPT !.copy = copy, !.nCopy = 1]
      t3 == [t2 EXCEPT !.eval = eval, !.nEval = 1]
      t4 == [t3 EXCEPT !.trust = trust]
      t5 == [t4 EXCEPT !.code = code, !.nPanel = 1]
  IN  IF sel.ret < 1
        THEN [t0 EXCEPT !.ret = IF sel.ret = 0 \/ sel.errno = "EAGAIN" THEN 3 ELSE -1]
      ELSE IF step # "noErr"
        THEN [t1 EXCEPT !.ret = IF step = "errSSLWouldBlock" THEN 1 ELSE -1]
      ELSE IF copy # "noErr"
        THEN [t2 EXCEPT !.ret = -1]
      ELSE IF eval # "noErr"
        THEN [t3 EXCEPT !.nRelease = 1, !.ret = -1]
      ELSE IF trust \in AcceptableTrust
        THEN [t4 EXCEPT !.nRelease = 1, !.ret = 0]
      ELSE IF code # 1
        THEN [t5 EXCEPT !.ret = -1]
      ELSE [t5 EXCEPT !.nRelease = 1, !.ret = 0]

\* Mutant of IrssiSslHandshake: on a channel opened without verification the
\* peer's trust is not looked at.
IrssiSslHandshakeTrustsUnverified(sel, step, copy, eval, trust, code) ==
  LET t0 == [op |-> "handshake", sel |-> sel, step |-> "none", copy |-> "none",
             eval |-> "none", trust |-> "none", code |-> 0, nCopy |-> 0,
             nEval |-> 0, nPanel |-> 0, nRelease |-> 0, ret |-> 0]
      t1 == [t0 EXCEPT !.step = step]
      t2 == [t1 EXCEPT !.copy = copy, !.nCopy = 1]
      t3 == [t2 EXCEPT !.eval = eval, !.nEval = 1]
      t4 == [t3 EXCEPT !.trust = trust]
      t5 == [t4 EXCEPT !.code = code, !.nPanel = 1]
  IN  IF sel.ret < 1
        THEN [t0 EXCEPT !.ret = IF sel.ret = 0 \/ sel.errno = "EAGAIN" THEN 3 ELSE -1]
      ELSE IF step # "noErr"
        THEN [t1 EXCEPT !.ret = IF step = "errSSLWouldBlock" THEN 1 ELSE -1]
      ELSE IF ~cverify
        THEN [t1 EXCEPT !.ret = 0]
      ELSE IF copy # "noErr"
        THEN [t2 EXCEPT !.ret = -1]
      ELSE IF eval # "noErr"
        THEN [t3 EXCEPT !.nRelease = 1, !.ret = -1]
      ELSE IF trust \in AcceptableTrust
        THEN [t4 EXCEPT !.nRelease = 1, !.ret = 0]
      ELSE IF code # 1
        THEN [t5 EXCEPT !.nRelease = 1, !.ret = -1]
      ELSE [t5 EXCEPT !.nRelease = 1, !.ret = 0]

\* irssi_ssl_handshake: what one invocation calls and returns, given what
\* each call it makes would return. The fields of a call not made stay "none"
\* (code 0), and nCopy, nEval, nPanel, nRelease count the calls of
\* SSLCopyPeerTrust, SecTrustEvaluate, the trust panel and CFRelease.
IrssiSslHandshake(sel, step, copy, eval, trust, code) ==
  LET t0 == [op |-> "handshake", sel |-> sel, step |-> "none", copy |-> "none",
             eval |-> "none", trust |-> "none", code |-> 0, nCopy |-> 0,
             nEval |-> 0, nPanel |-> 0, nRelease |-> 0, ret |-> 0]
      t1 == [t0 EXCEPT !.step = step]
      t2 == [t1 EXCEPT !.copy = copy, !.nCopy = 1]
      t3 == [t2 EXCEPT !.eval = eval, !.nEval = 1]
      t4 == [t3 EXCEPT !.trust = trust]
      t5 == [t4 EXCEPT !.code = code, !.nPanel = 1]
  IN  IF sel.ret < 1
        THEN [t0 EXCEPT !.ret = IF sel.ret = 0 \/ sel.errno = "EAGAIN" THEN 3 ELSE -1]
      ELSE IF step # "noErr"
        THEN [t1 EXCEPT !.ret = IF step = "errSSLWouldBlock" THEN 1 ELSE -1]
      ELSE IF copy # "noErr"
        THEN [t2 EXCEPT !.ret = -1]
      ELSE IF eval # "noErr"
        THEN [t3 EXCEPT !.nRelease = 1, !.ret = -1]
      ELSE IF trust \in AcceptableTrust
        THEN [t4 EXCEPT !.nRelease = 1, !.ret = 0]
      ELSE IF code # 1
        THEN [t5 EXCEPT !.nRelease = 1, !.ret = -1]
      ELSE [t5 EXCEPT !.nRelease = 1, !.ret = 0]

\* Every run of irssi_ssl_handshake on a session in state e: the inputs of
\* the calls a run does not reach are not varied.
HandshakeTraces(e) ==
  LET writable == [ret |-> 1, errno |-> "none"]
      H(sel, step, copy, eval, trust, code) ==
        IrssiSslHandshake(sel, step, copy, eval, trust, code)
  IN  {H(sel, "noErr", "noErr", "noErr", "kSecTrustResultProceed", 1) :
         sel \in SelectResults \ {writable}}
      \cup {H(writable, step, "noErr", "noErr", "kSecTrustResultProceed", 1) :
               step \in HandshakeOutcomes(e) \ {"noErr"}}
      \cup {H(writable, step, copy, "noErr", "kSecTrustResultProceed", 1) :
               step \in HandshakeOutcomes(e) \cap {"noErr"},
               copy \in CopyTrustResults \ {"noErr"}}
      \cup {H(writable, step, "noErr", eval, "kSecTrustResultProceed", 1) :
               step \in HandshakeOutcomes(e) \cap {"noErr"},
               eval \in EvaluateResults \ {"noErr"}}
      \cup {H(writable, step, "noErr", "noErr", trust, code) :
               step \in HandshakeOutcomes(e) \cap {"noErr"},
               trust \in TrustResults, code \in PanelCodes}

\* The HandshakeResult a return value of irssi_ssl_handshake stands for.
HandshakeResult(ret) ==
  CASE ret = 0 -> "Established"
    [] ret = 1 \/ ret = 3 -> "Handshaking"
    [] OTHER -> "Failed"

\* The identities of the keychain that CreateIdentityFromCommonName walks:
\* each has a common name and says whether SecIdentityCopyCertificate and
\* SecCertificateCopyCommonName succeed on it.
Identities ==
  {[cn |-> "alice", certOk |-> TRUE, cnOk |-> TRUE],
   [cn |-> "bob", certOk |-> TRUE, cnOk |-> TRUE],
   [cn |-> "alice", certOk |-> FALSE, cnOk |-> TRUE],
   [cn |-> "alice", certOk |-> TRUE, cnOk |-> FALSE]}

Keychains == {<<>>} \cup {<<a>> : a \in Identities}
               \cup {<<a, b>> : a, b \in Identities}

\* CreateIdentityFromCommonName: the loop over the keychain from entry i on;
\* the index of the identity returned, 0 for NULL.
RECURSIVE IdentitySearch(_, _, _)
IdentitySearch(keychain, certificate, i) ==
  IF i > Len(keychain) THEN 0
  ELSE IF ~keychain[i].certOk THEN IdentitySearch(keychain, certificate, i + 1)
  ELSE IF ~keychain[i].cnOk THEN IdentitySearch(keychain, certificate, i + 1)
  ELSE IF keychain[i].cn = certificate THEN i
  ELSE IdentitySearch(keychain, certificate, i + 1)

CreateIdentityFromCommonName(searchOk, keychain, certificate) ==
  IF ~searchOk THEN 0 ELSE IdentitySearch(keychain, certificate, 1)

\* The inputs of net_connect_ip_ssl: whether net_connect_ip connects, the
\* descriptor it yields, the certificate name asked for ("NULL": none), the
\* keychain, verify, and what each Secure Transport call would return.
OpenInputs ==
  [connectOk : BOOLEAN, fd : {0, 3}, newCtx : {"noErr", "memFullErr"},
   setIO : {"noErr", "paramErr"}, mycert : {"NULL", "alice"},
   searchOk : BOOLEAN, keychain : Keychains,
   setCert : {"noErr", "errSSLBadCert"}, setEnc : {"noErr", "errSSLBadCert"},
   setConn : {"noErr", "paramErr"}, verify : BOOLEAN]

\* Mutant of IrssiSslGetIochannel: a NULL identity is not checked for.
IrssiSslGetIochannelNoIdentityCheck(in) ==
  LET r0 == [ret |-> "NULL", why |-> "fd", ctxCreated |-> 0, ctxDisposed |-> 0,
             chanAlloc |-> 0]
      r1 == [r0 EXCEPT !.ctxCreated = 1]
  IN  IF in.fd = 0 THEN r0
      ELSE IF in.newCtx # "noErr" THEN [r0 EXCEPT !.ret = "abort", !.why = "newCtx"]
      ELSE IF in.setIO # "noErr" THEN [r1 EXCEPT !.ret = "abort", !.why = "setIO"]
      ELSE IF in.mycert # "NULL"
              /\ (IF in.setCert = "noErr" THEN in.setEnc ELSE in.setCert) # "noErr"
        THEN [r1 EXCEPT !.why = "install"]
      ELSE IF in.setConn # "noErr"
        THEN [r1 EXCEPT !.ret = "abort", !.why = "setConn", !.chanAlloc = 1]
      ELSE [r1 EXCEPT !.ret = "channel", !.why = "ok", !.chanAlloc = 1]

\* irssi_ssl_get_iochannel: the exit taken (g_error ends the process), and
\* what was made and disposed on the way.
IrssiSslGetIochannel(in) ==
  LET r0 == [ret |-> "NULL", why |-> "fd", ctxCreated |-> 0, ctxDisposed |-> 0,
             chanAlloc |-> 0]
      r1 == [r0 EXCEPT !.ctxCreated = 1]
  IN  IF in.fd = 0 THEN r0
      ELSE IF in.newCtx # "noErr" THEN [r0 EXCEPT !.ret = "abort", !.why = "newCtx"]
      ELSE IF in.setIO # "noErr" THEN [r1 EXCEPT !.ret = "abort", !.why = "setIO"]
      ELSE IF in.mycert # "NULL"
              /\ CreateIdentityFromCommonName(in.searchOk, in.keychain, in.mycert) = 0
        THEN [r1 EXCEPT !.why = "identity", !.ctxDisposed = 1]
      ELSE IF in.mycert # "NULL"
              /\ (IF in.setCert = "noErr" THEN in.setEnc ELSE in.setCert) # "noErr"
        THEN [r1 EXCEPT !.why = "install"]
      ELSE IF in.setConn # "noErr"
        THEN [r1 EXCEPT !.ret = "abort", !.why = "setConn", !.chanAlloc = 1]
      ELSE [r1 EXCEPT !.ret = "channel", !.why = "ok", !.chanAlloc = 1]

\* net_connect_ip_ssl: the same with the raw channel made and released.
NetConnectIpSsl(in) ==
  LET none == [ret |-> "NULL", why |-> "connect", ctxCreated |-> 0,
               ctxDisposed |-> 0, chanAlloc |-> 0, rawCreated |-> 0,
               rawReleased |-> 0]
      r == IrssiSslGetIochannel(in)
      got == [ret |-> r.ret, why |-> r.why, ctxCreated |-> r.ctxCreated,
              ctxDisposed |-> r.ctxDisposed, chanAlloc |-> r.chanAlloc,
              rawCreated |-> 1, rawReleased |-> 0]
  IN  IF ~in.connectOk THEN none
      ELSE IF r.ret = "NULL" THEN [got EXCEPT !.rawReleased = 1]
      ELSE got

\* --------------------------------------------- SpecRelay: the relay alone

RelayLens == {0, 1, 2, 3, ChunkMax - 1, ChunkMax, ChunkMax + 1, 2 * ChunkMax, MaxLen}

RelayInit ==
  /\ rpc = "idle"
  /\ rfn = "none"
  /\ rlen = 0
  /\ rdataLength = 0
  /\ rreq = 0
  /\ rstatus = "none"
  /\ rbase = 0
  /\ rcallNo = 0
  /\ rcalls = <<>>
  /\ rops = 0

\* The engine calls a callback for a new message of n bytes.
RelayCall(fn, n) ==
  /\ rpc = "idle"
  /\ rpc' = fn
  /\ rfn' = fn
  /\ rlen' = 0
  /\ rdataLength' = n
  /\ rreq' = n
  /\ rstatus' = "running"
  /\ rbase' = 0
  /\ rcallNo' = 1
  /\ rcalls' = <<>>
  /\ rops' = 0
  /\ UNCHANGED chanVars

\* After errSSLWouldBlock the engine calls the same callback again for the
\* rest of the message: the buffer starts at the count reported back.
RelayResume ==
  /\ rpc = "idle"
  /\ rstatus = "errSSLWouldBlock"
  /\ Len(rcalls) < MaxRawOps
  /\ rpc' = rfn
  /\ rlen' = 0
  /\ rdataLength' = rreq - rdataLength
  /\ rreq' = rreq - rdataLength
  /\ rstatus' = "running"
  /\ rbase' = rbase + rdataLength
  /\ rcallNo' = rcallNo + 1
  /\ rops' = 0
  /\ UNCHANGED <<rfn, rcalls, chanVars>>

RelayApply(r) ==
  /\ rlen' = r.len
  /\ rdataLength' = r.dataLength
  /\ rstatus' = r.status
  /\ rpc' = IF r.ret THEN "idle" ELSE rpc
  /\ UNCHANGED <<rfn, rreq, rbase, rcallNo, rops, chanVars>>

\* One pass of the loop of _SSLReadFunction.
RelayRawRead ==
  /\ rpc = "read"
  /\ rlen < rdataLength
  /\ Len(rcalls) < MaxRawOps
  /\ \E o \in RawResults(ReadAsked(rlen, rdataLength)) :
        /\ rcalls' = Append(rcalls, [call |-> rcallNo, off |-> rbase + rlen,
                                     asked |-> ReadAsked(rlen, rdataLength),
                                     res |-> o.res, errno |-> o.errno])
        /\ RelayApply(SSLReadFunctionIter(rlen, rdataLength, o.res, o.errno))

\* One pass of the loop of _SSLWriteFunction.
RelayRawWrite ==
  /\ rpc = "write"
  /\ rlen < rdataLength
  /\ Len(rcalls) < MaxRawOps
  /\ \E o \in RawResults(WriteChunk(rlen, rdataLength)) :
        /\ rcalls' = Append(rcalls, [call |-> rcallNo, off |-> rbase + rlen,
                                     asked |-> WriteChunk(rlen, rdataLength),
                                     res |-> o.res, errno |-> o.errno])
        /\ RelayApply(SSLWriteFunctionIter(rlen, rdataLength, o.res, o.errno))

\* The loop of either callback ends: all of *dataLength was transferred.
RelayDone ==
  /\ rpc \in {"read", "write"}
  /\ ~(rlen < rdataLength)
  /\ RelayApply(RelayExit(rlen, rdataLength))
  /\ UNCHANGED rcalls

RelayNext ==
  \/ \E fn \in {"read", "write"}, n \in RelayLens : RelayCall(fn, n)
  \/ RelayResume
  \/ RelayRawRead
  \/ RelayRawWrite
  \/ RelayDone

\* ---------------------------------------------------- Spec: the channel

\* The peer's stream: one data record, then possibly close_notify.
PeerData == [i \in 1..RecLen |-> i]
PeerStreams == {EncryptSeq(PeerData), EncryptSeq(PeerData \o CloseRecord)}

\* The bytes of its stream a caller hands to irssi_ssl_write next.
AppBuf(sent, len) == [i \in 1..len |-> sent + i]

ChanInit ==
  /\ openRet = "none"
  /\ openWhy = "none"
  /\ chan = "none"
  /\ closed = FALSE
  /\ cfd = 0
  /\ cverify = FALSE
  /\ ctxCreated = 0
  /\ ctxDisposed = 0
  /\ rawCreated = 0
  /\ rawReleased = 0
  /\ eng = "none"
  /\ lifecycle = "none"
  /\ rejected = FALSE
  /\ nStepOk = 0
  /\ nEval = 0
  /\ last = [op |-> "none"]
  /\ rawTouched = FALSE
  /\ peerOut \in PeerStreams
  /\ wireIn = <<>>
  /\ partial = <<>>
  /\ ready = <<>>
  /\ engOut = <<>>
  /\ rdDelivered = <<>>
  /\ appSent = 0
  /\ wq = <<>>
  /\ wireOut = <<>>
  /\ sockSpace = MaxSpace
  /\ sockErr = FALSE

InUse == chan = "live" /\ ~closed

\* Every run of net_connect_ip_ssl: what it returns, with fd and verify.
OpenRuns ==
  {[r |-> NetConnectIpSsl(in), fd |-> in.fd, verify |-> in.verify,
    connectOk |-> in.connectOk, mycert |-> in.mycert,
    identity |-> CreateIdentityFromCommonName(in.searchOk, in.keychain, in.mycert)] :
     in \in OpenInputs}

\* net_connect_ip_ssl.
Open ==
  /\ openRet = "none"
  /\ \E o \in OpenRuns :
       LET r == o.r
           in == o
       IN  /\ openRet' = r.ret
           /\ openWhy' = r.why
           /\ chan' = IF r.ret = "channel" THEN "live" ELSE "none"
           /\ cfd' = IF r.ret = "channel" THEN in.fd ELSE cfd
           /\ cverify' = IF r.ret = "channel" THEN in.verify ELSE cverify
           /\ ctxCreated' = r.ctxCreated
           /\ ctxDisposed' = r.ctxDisposed
           /\ rawCreated' = r.rawCreated
           /\ rawReleased' = r.rawReleased
           /\ eng' = IF r.ret = "channel" THEN "new" ELSE eng
           /\ lifecycle' = IF r.ret = "channel" THEN "Unestablished" ELSE lifecycle
           /\ last' = [op |-> "open", connectOk |-> o.connectOk, fd |-> o.fd,
                       mycert |-> o.mycert, identity |-> o.identity]
  /\ UNCHANGED <<closed, rejected, nStepOk, nEval, rawTouched, readVars,
                 writeVars, sockErr, relayVars>>

\* irssi_ssl_handshake.
Handshake ==
  /\ InUse
  /\ nStepOk < MaxStepOk
  /\ \E t \in HandshakeTraces(eng) :
           /\ last' = t
           /\ eng' = IF t.step = "none" THEN eng ELSE AfterHandshake(eng, t.step)
           /\ nStepOk' = nStepOk + (IF t.step = "noErr" THEN 1 ELSE 0)
           /\ nEval' = nEval + t.nEval
           /\ rejected' = (rejected \/ (t.nPanel > 0 /\ t.code # 1))
           /\ lifecycle' = HandshakeResult(t.ret)
           /\ rawTouched' = (rawTouched \/ t.step # "none")
  /\ UNCHANGED <<lifeVars, readVars, writeVars, sockErr, relayVars>>

\* irssi_ssl_read.
Read ==
  /\ InUse
  /\ \E len \in 1..MaxBuf, hs \in IoHandshakeOutcomes(eng) :
       LET r == SSLRead(len, hs)
           g == IrssiSslRead(r.status, r.processed)
       IN  /\ last' = [op |-> "read", engStatus |-> r.status,
                       processed |-> r.processed, status |-> g.status,
                       ret |-> g.ret]
           /\ eng' = r.eng
           /\ partial' = r.partial
           /\ ready' = r.ready
           /\ wireIn' = r.wire
           /\ engOut' = engOut \o r.out
           /\ rdDelivered' = rdDelivered \o Take(r.out, g.ret)
           /\ rawTouched' = (rawTouched \/ r.raw)
  /\ UNCHANGED <<lifeVars, hsVars, peerOut, writeVars, sockErr, relayVars>>

\* irssi_ssl_write.
Write ==
  /\ InUse
  /\ \E len \in 1..MaxBuf, hs \in IoHandshakeOutcomes(eng) :
       /\ Len(wq) + Len(wireOut) + len <= MaxOut
       /\ LET r == SSLWrite(AppBuf(appSent, len), hs)
               g == IrssiSslWrite(r.status, r.processed)
           IN  /\ last' = [op |-> "write", engStatus |-> r.status,
                           processed |-> r.processed, status |-> g.status,
                           ret |-> g.ret]
               /\ eng' = r.eng
               /\ wq' = r.wq
               /\ wireOut' = r.wireOut
               /\ sockSpace' = r.space
               /\ appSent' = appSent + g.ret
               /\ rawTouched' = (rawTouched \/ r.raw)
  /\ UNCHANGED <<lifeVars, hsVars, readVars, sockErr, relayVars>>

\* irssi_ssl_close.
Close ==
  /\ InUse
  /\ closed' = IrssiSslClose.fdClose
  /\ last' = [op |-> "close"]
  /\ UNCHANGED <<openRet, openWhy, chan, cfd, cverify, ctxCreated, ctxDisposed,
                 rawCreated, rawReleased, hsVars, eng, rawTouched, readVars,
                 writeVars, sockErr, relayVars>>

\* The last reference to the channel is dropped: irssi_ssl_free. The context
\* and its buffers are gone with it, and so is the connection.
Free ==
  /\ chan = "live"
  /\ chan' = "freed"
  /\ rawReleased' = rawReleased + IrssiSslFree.rawUnref
  /\ ctxDisposed' = ctxDisposed + IrssiSslFree.dispose
  /\ last' = [op |-> "free"]
  /\ eng' = "none"
  /\ peerOut' = <<>>
  /\ wireIn' = <<>>
  /\ partial' = <<>>
  /\ ready' = <<>>
  /\ wq' = <<>>
  /\ UNCHANGED <<openRet, openWhy, closed, cfd, cverify, ctxCreated, rawCreated,
                 hsVars, rawTouched, engOut, rdDelivered, appSent, wireOut,
                 sockSpace, sockErr, relayVars>>

\* The peer's ciphertext arrives at the descriptor.
Arrive ==
  /\ InUse
  /\ eng = "connected"
  /\ \E k \in 1..Len(peerOut) :
       /\ wireIn' = wireIn \o Take(peerOut, k)
       /\ peerOut' = Drop(peerOut, k)
  /\ UNCHANGED <<lifeVars, hsVars, eng, last, rawTouched, partial, ready, engOut,
                 rdDelivered, writeVars, sockErr, relayVars>>

\* The room in the descriptor's send buffer changes.
SockSpace ==
  /\ InUse
  /\ \E k \in 0..MaxSpace :
       /\ k # sockSpace
       /\ sockSpace' = k
  /\ UNCHANGED <<lifeVars, hsVars, eng, last, rawTouched, readVars, appSent, wq,
                 wireOut, sockErr, relayVars>>

\* The connection breaks: read() and write() fail from now on.
SockFail ==
  /\ InUse
  /\ ~sockErr
  /\ sockErr' = TRUE
  /\ UNCHANGED <<lifeVars, hsVars, eng, last, rawTouched, readVars, writeVars,
                 relayVars>>

Init == RelayInit /\ ChanInit

Next ==
  \/ Open
  \/ Handshake
  \/ Read
  \/ Write
  \/ Close
  \/ Free
  \/ Arrive

Spec == Init /\ [][Next]_vars

SpecRelay == Init /\ [][RelayNext]_vars

\* ------------------------------------------------------ claims: the relay

\* The bytes the raw descriptor took in the raw calls s.
Accepted(s) == SumSeq([i \in 1..Len(s) |-> IF s[i].res > 0 THEN s[i].res ELSE 0])

\* The raw calls of call number c for the message.
CallOps(c) == SelectSeq(rcalls, LAMBDA e : e.call = c)

\* Every raw call starts at the byte after the last one the descriptor took.
InOrderOnce(s) == \A i \in 1..Len(s) : s[i].off = Accepted(SubSeq(s, 1, i - 1))

Returned(fn) == rfn = fn /\ rpc = "idle" /\ rstatus # "none"

\* C1: the raw writes of _SSLWriteFunction hand the descriptor buffer[0..k) in
\* order, each byte once and none skipped, also across the calls that resume
\* after errSSLWouldBlock; the count reported with errSSLWouldBlock or with
\* noErr is the number of bytes the descriptor took in that call, and with
\* noErr it is the whole length.
C1_WriteResumesExactly ==
  rfn = "write" =>
    /\ InOrderOnce(rcalls)
    /\ \A i \in 1..Len(rcalls) : rcalls[i].off + rcalls[i].asked <= rbase + rreq
    /\ (rpc = "idle" /\ rstatus \in {"noErr", "errSSLWouldBlock"}) =>
          /\ rdataLength = Accepted(CallOps(rcallNo))
          /\ rbase + rdataLength = Accepted(rcalls)
          /\ rstatus = "noErr" => rdataLength = rreq

\* A write of two chunks and more that would block after the first chunk, was
\* resumed at the reported count and then completed.
C1_Witness ==
  /\ Returned("write")
  /\ rstatus = "noErr"
  /\ rcallNo = 2
  /\ rbase = ChunkMax
  /\ rreq > ChunkMax

LastOp(c) == CallOps(c)[Len(CallOps(c))]

\* C2: _SSLReadFunction returns noErr only with exactly the requested length
\* collected; errSSLWouldBlock exactly when a read() failed with EAGAIN, with
\* the count of bytes collected so far, below the requested length;
\* errSSLInternal exactly when a read() failed otherwise; and no call returns
\* on a read() of zero bytes.
C2_ReadStatus ==
  Returned("read") =>
    LET ops == CallOps(rcallNo)
        failed == ops # <<>> /\ LastOp(rcallNo).res = -1
    IN  /\ rstatus \in {"noErr", "errSSLWouldBlock", "errSSLInternal"}
        /\ rstatus = "noErr" <=> ~failed
        /\ rstatus = "noErr" => rdataLength = rreq /\ Accepted(ops) = rreq
        /\ rstatus = "errSSLWouldBlock" <=> (failed /\ LastOp(rcallNo).errno = "EAGAIN")
        /\ rstatus = "errSSLWouldBlock" =>
              rdataLength = Accepted(ops) /\ 0 <= rdataLength /\ rdataLength < rreq
        /\ rstatus = "errSSLInternal" <=> (failed /\ LastOp(rcallNo).errno # "EAGAIN")
        /\ ops # <<>> => LastOp(rcallNo).res # 0

\* A read that collected some bytes, then read zero bytes, then would block.
C2_Witness ==
  /\ Returned("read")
  /\ rstatus = "errSSLWouldBlock"
  /\ rdataLength > 0
  /\ \E i \in 1..Len(rcalls) : rcalls[i].call = rcallNo /\ rcalls[i].res = 0

\* --------------------------------------------------- claims: the channel

LastIs(op) == last.op = op

InProgress(ret) == ret = 1 \/ ret = 3

\* C3: an invocation of irssi_ssl_handshake that reports InProgress (1 or 3)
\* neither retrieves nor evaluates the peer's trust nor asks the panel; an
\* invocation evaluates the trust at most once, and only after SSLHandshake
\* returned noErr to it; over all invocations on a channel SecTrustEvaluate is
\* called at most as often as SSLHandshake returned noErr.
C3_TrustEvaluatedOncePerCompletion ==
  /\ nEval <= nStepOk
  /\ LastIs("handshake") =>
       /\ last.nEval <= 1
       /\ last.nEval = 1 => last.step = "noErr"
       /\ InProgress(last.ret) =>
            last.nCopy = 0 /\ last.nEval = 0 /\ last.nPanel = 0

\* An invocation that reports InProgress on a channel whose handshake step
\* completed in an earlier invocation, with the trust evaluated once in all.
C3_Witness ==
  /\ LastIs("handshake")
  /\ InProgress(last.ret)
  /\ nStepOk = 1
  /\ nEval = 1

\* C4: whatever the lifecycle state at the close, the freed channel has had
\* its context disposed exactly once and its raw channel released exactly
\* once, and while the channel lives neither has been released.
C4_CloseReleasesOnce ==
  /\ chan = "live" => ctxCreated = 1 /\ ctxDisposed = 0
                        /\ rawCreated = 1 /\ rawReleased = 0
  /\ chan = "freed" => ctxCreated = 1 /\ ctxDisposed = 1
                         /\ rawCreated = 1 /\ rawReleased = 1

\* A channel closed and freed after its handshake failed.
C4_Witness ==
  /\ chan = "freed"
  /\ closed
  /\ lifecycle = "Failed"

\* C5: the handshake in which the trust panel refuses the chain returns -1,
\* and once the panel has refused, no irssi_ssl_read and no irssi_ssl_write
\* on the channel returns G_IO_STATUS_NORMAL.
C5_RejectEndsIo ==
  /\ (LastIs("handshake") /\ last.nPanel = 1 /\ last.code # 1) => last.ret = -1
  /\ (rejected /\ (LastIs("read") \/ LastIs("write"))) =>
       last.status # "G_IO_STATUS_NORMAL"

\* C6: when SSLHandshake and SecTrustEvaluate succeed with the result
\* kSecTrustResultProceed or kSecTrustResultUnspecified, irssi_ssl_handshake
\* returns 0 and the trust panel is not called in that invocation.
C6_AcceptableNeverAsks ==
  (LastIs("handshake") /\ last.step = "noErr" /\ last.eval = "noErr"
     /\ last.trust \in AcceptableTrust) =>
    last.ret = 0 /\ last.nPanel = 0

\* A handshake established on kSecTrustResultUnspecified.
C6_Witness ==
  /\ LastIs("handshake")
  /\ last.trust = "kSecTrustResultUnspecified"
  /\ last.ret = 0
  /\ lifecycle = "Established"

\* C7: when SSLHandshake succeeds and the trust result is outside the
\* acceptable classes, the panel is called once and irssi_ssl_handshake returns
\* 0 exactly when the panel returns 1, and -1 for every other code; when the
\* chain cannot be retrieved or evaluated it returns -1 without asking.
C7_EscalationDecides ==
  (LastIs("handshake") /\ last.step = "noErr") =>
    /\ (last.copy # "noErr" \/ last.eval # "noErr") =>
         last.ret = -1 /\ last.nPanel = 0
    /\ (last.eval = "noErr" /\ last.trust \notin AcceptableTrust) =>
         /\ last.nCopy = 1
         /\ last.nPanel = 1
         /\ last.ret = 0 <=> last.code = 1
         /\ last.code # 1 => last.ret = -1

\* A chain outside the acceptable classes that the panel accepted.
C7_Witness ==
  /\ LastIs("handshake")
  /\ last.trust = "kSecTrustResultRecoverableTrustFailure"
  /\ last.nPanel = 1
  /\ last.code = 1
  /\ last.ret = 0

\* C8: an invocation whose select() finds the descriptor not writable
\* returns InProgress (3) without calling SSLHandshake, SSLCopyPeerTrust,
\* SecTrustEvaluate or the panel, and leaves the session as it was; any
\* invocation that calls SSLHandshake had select() report it writable.
C8_ProbeFirst ==
  LastIs("handshake") =>
    /\ (last.sel.ret = 0 \/ (last.sel.ret < 0 /\ last.sel.errno = "EAGAIN")) =>
         /\ last.ret = 3
         /\ last.step = "none"
         /\ last.nCopy = 0 /\ last.nEval = 0 /\ last.nPanel = 0
    /\ last.step # "none" => last.sel.ret >= 1

\* The probe found the descriptor not writable while the session was in the
\* middle of its handshake.
C8_Witness ==
  /\ LastIs("handshake")
  /\ last.sel.ret = 0
  /\ last.ret = 3
  /\ eng = "handshaking"

\* C9: net_connect_ip_ssl asked for a certificate name that
\* CreateIdentityFromCommonName does not find yields no channel, returns NULL
\* when it gets as far as the lookup, and no read() or write() was made on
\* the descriptor.
C9_UnknownIdentityFails ==
  (LastIs("open") /\ last.mycert # "NULL" /\ last.identity = 0) =>
    /\ openRet # "channel"
    /\ chan = "none"
    /\ ~rawTouched
    /\ openWhy = "identity" => openRet = "NULL"

\* The lookup was reached and found nothing.
C9_Witness ==
  /\ LastIs("open")
  /\ last.mycert # "NULL"
  /\ last.identity = 0
  /\ openWhy = "identity"
  /\ openRet = "NULL"

\* C10: on an established channel the bytes irssi_ssl_read has reported to
\* its callers, call after call, are the plaintext SSLRead has copied into
\* their buffers: none lost, none twice, in order.
C10_ReadKeepsEveryByte ==
  lifecycle = "Established" => rdDelivered = engOut

\* ------------------------------------- SpecData: the channel's write path

\* The channel with its descriptor's send buffer filling and draining, and
\* the connection breaking, under the caller's writes.
DataNext ==
  \/ Open
  \/ Handshake
  \/ Write
  \/ SockSpace
  \/ SockFail

SpecData == Init /\ [][DataNext]_vars

\* C11: on an established channel a write that irssi_ssl_write reports as not
\* done (G_IO_STATUS_AGAIN) reports 0 bytes, and whenever a write returns G_IO_STATUS_NORMAL the
\* payload carried towards the descriptor over all the calls so far, sent or
\* queued for it, is the bytes the caller was told were written, once each:
\* N bytes after a blocked write of N bytes and its repetition, not 2 x N.
C11_RetrySendsOnce ==
  (LastIs("write") /\ lifecycle = "Established") =>
    /\ last.status = "G_IO_STATUS_AGAIN" => last.ret = 0
    /\ last.status = "G_IO_STATUS_NORMAL" =>
         DecryptSeq(wireOut \o wq) = AppBuf(0, appSent)

\* C12: irssi_ssl_read returns G_IO_STATUS_NORMAL with SSLRead's processed
\* count exactly when SSLRead returns noErr, G_IO_STATUS_AGAIN exactly on
\* errSSLWouldBlock, G_IO_STATUS_EOF exactly on errSSLClosedGraceful and
\* G_IO_STATUS_ERROR on every other status, each of the three with 0 bytes;
\* irssi_ssl_write maps the same way but never returns G_IO_STATUS_EOF: a
\* graceful close is G_IO_STATUS_ERROR.
C12_StatusMapping ==
  /\ LastIs("read") =>
       /\ last.status = "G_IO_STATUS_NORMAL" <=> last.engStatus = "noErr"
       /\ last.status = "G_IO_STATUS_AGAIN" <=> last.engStatus = "errSSLWouldBlock"
       /\ last.status = "G_IO_STATUS_EOF" <=> last.engStatus = "errSSLClosedGraceful"
       /\ last.status = "G_IO_STATUS_ERROR" <=>
            last.engStatus \notin {"noErr", "errSSLWouldBlock", "errSSLClosedGraceful"}
       /\ last.ret = IF last.engStatus = "noErr" THEN last.processed ELSE 0
  /\ LastIs("write") =>
       /\ last.status = "G_IO_STATUS_NORMAL" <=> last.engStatus = "noErr"
       /\ last.status = "G_IO_STATUS_AGAIN" <=> last.engStatus = "errSSLWouldBlock"
       /\ last.status = "G_IO_STATUS_ERROR" <=>
            last.engStatus \notin {"noErr", "errSSLWouldBlock"}
       /\ last.status # "G_IO_STATUS_EOF"
       /\ last.ret = IF last.engStatus = "noErr" THEN last.processed ELSE 0

\* A write on a session the peer has closed gracefully.
C12_Witness ==
  /\ LastIs("write")
  /\ last.engStatus = "errSSLClosedGraceful"
  /\ last.status = "G_IO_STATUS_ERROR"
  /\ last.ret = 0

\* ------------------------------- SpecFrame: the operations passed through

\* What the caller can pass: seek offsets and origins, watch conditions
\* (G_IO_IN, G_IO_OUT), flags (none, G_IO_FLAG_NONBLOCK).
SeekOffsets == {0, 1}
SeekTypes == {"G_SEEK_SET", "G_SEEK_END"}
WatchConds == {1, 4}
FlagSets == {0, 2}

\* What the raw channel's functions can return.
RawStatuses == {"G_IO_STATUS_NORMAL", "G_IO_STATUS_ERROR"}
RawSources == {"source", "NULL"}

\* Mutant of IrssiSslSeek: the seek always starts from the beginning.
IrssiSslSeekFromStart(offset, type, raw) ==
  [table |-> "giochan", fn |-> "io_seek", chanArg |-> "handle",
   args |-> <<offset, "G_SEEK_SET">>, ret |-> raw]

\* irssi_ssl_seek: the function it calls, taken from the function table of
\* chan->giochan, what it passes (the channel argument is the caller's handle)
\* and what it returns, raw being what the function called returns.
IrssiSslSeek(offset, type, raw) ==
  [table |-> "giochan", fn |-> "io_seek", chanArg |-> "handle",
   args |-> <<offset, type>>, ret |-> raw]

\* irssi_ssl_create_watch: the call it makes.
IrssiSslCreateWatch(cond, raw) ==
  [table |-> "giochan", fn |-> "io_create_watch", chanArg |-> "handle",
   args |-> <<cond>>, ret |-> raw]

\* irssi_ssl_set_flags: the call it makes.
IrssiSslSetFlags(flags, raw) ==
  [table |-> "giochan", fn |-> "io_set_flags", chanArg |-> "handle",
   args |-> <<flags>>, ret |-> raw]

\* irssi_ssl_get_flags: the call it makes.
IrssiSslGetFlags(raw) ==
  [table |-> "giochan", fn |-> "io_get_flags", chanArg |-> "handle",
   args |-> <<>>, ret |-> raw]

\* All of the state but the record of the last call: a passed-through
\* operation assigns none of it.
untouchedVars == <<lifeVars, hsVars, eng, rawTouched, readVars, writeVars,
                   sockErr, relayVars>>

\* irssi_ssl_seek.
Seek ==
  /\ InUse
  /\ \E offset \in SeekOffsets, type \in SeekTypes, raw \in RawStatuses :
       last' = [op |-> "seek", given |-> <<offset, type>>, rawRet |-> raw,
                call |-> IrssiSslSeek(offset, type, raw)]
  /\ UNCHANGED untouchedVars

\* irssi_ssl_create_watch.
CreateWatch ==
  /\ InUse
  /\ \E cond \in WatchConds, raw \in RawSources :
       last' = [op |-> "create_watch", given |-> <<cond>>, rawRet |-> raw,
                call |-> IrssiSslCreateWatch(cond, raw)]
  /\ UNCHANGED untouchedVars

\* irssi_ssl_set_flags.
SetFlags ==
  /\ InUse
  /\ \E flags \in FlagSets, raw \in RawStatuses :
       last' = [op |-> "set_flags", given |-> <<flags>>, rawRet |-> raw,
                call |-> IrssiSslSetFlags(flags, raw)]
  /\ UNCHANGED untouchedVars

\* irssi_ssl_get_flags.
GetFlags ==
  /\ InUse
  /\ \E raw \in FlagSets :
       last' = [op |-> "get_flags", given |-> <<>>, rawRet |-> raw,
                call |-> IrssiSslGetFlags(raw)]
  /\ UNCHANGED untouchedVars

FrameNext ==
  \/ Open
  \/ Handshake
  \/ Seek
  \/ CreateWatch
  \/ SetFlags
  \/ GetFlags
  \/ Close
  \/ Free

SpecFrame == Init /\ [][FrameNext]_vars

PassedThrough == {"seek", "create_watch", "set_flags", "get_flags"}

RawFunction(op) ==
  CASE op = "seek" -> "io_seek"
    [] op = "create_watch" -> "io_create_watch"
    [] op = "set_flags" -> "io_set_flags"
    [] op = "get_flags" -> "io_get_flags"

\* C13: every step that is a seek, create_watch, set_flags or get_flags on
\* the channel calls the function of that name from the wrapped raw channel's
\* function table with the arguments the caller gave, returns what that
\* function returned, and leaves the context, the raw channel handle and its
\* reference, the descriptor, the verification flag and the session as they
\* were.
C13_PassThrough ==
  [][last'.op \in PassedThrough =>
       /\ last'.call.table = "giochan"
       /\ last'.call.fn = RawFunction(last'.op)
       /\ last'.call.args = last'.given
       /\ last'.call.ret = last'.rawRet
       /\ UNCHANGED <<chan, cfd, cverify, ctxCreated, ctxDisposed, rawCreated,
                      rawReleased, eng, closed>>]_vars

\* A seek from the end on an established channel, refused by the raw channel.
C13_Witness ==
  /\ LastIs("seek")
  /\ lifecycle = "Established"
  /\ last.given = <<1, "G_SEEK_END">>
  /\ last.call.ret = "G_IO_STATUS_ERROR"

\* ------------------- SpecRelayLive: the relay's loops followed without end

\* The lengths the callbacks are called with here.
LiveLens == {0, 1, 2, 3, ChunkMax + 1}

\* One pass of the loop of _SSLReadFunction, however many came before it.
LiveRawRead ==
  /\ rpc = "read"
  /\ rlen < rdataLength
  /\ \E o \in RawResults(ReadAsked(rlen, rdataLength)) :
       LET r == SSLReadFunctionIter(rlen, rdataLength, o.res, o.errno)
       IN  /\ rlen' = r.len
           /\ rdataLength' = r.dataLength
           /\ rstatus' = r.status
           /\ rpc' = IF r.ret THEN "idle" ELSE rpc
  /\ rops' = (rops + 1) % 2
  /\ UNCHANGED <<rfn, rreq, rbase, rcallNo, rcalls, chanVars>>

\* One pass of the loop of _SSLWriteFunction, however many came before it.
LiveRawWrite ==
  /\ rpc = "write"
  /\ rlen < rdataLength
  /\ \E o \in RawResults(WriteChunk(rlen, rdataLength)) :
       LET r == SSLWriteFunctionIter(rlen, rdataLength, o.res, o.errno)
       IN  /\ rlen' = r.len
           /\ rdataLength' = r.dataLength
           /\ rstatus' = r.status
           /\ rpc' = IF r.ret THEN "idle" ELSE rpc
  /\ rops' = (rops + 1) % 2
  /\ UNCHANGED <<rfn, rreq, rbase, rcallNo, rcalls, chanVars>>

LiveNext ==
  \/ \E fn \in {"read", "write"}, n \in LiveLens : RelayCall(fn, n)
  \/ LiveRawRead
  \/ LiveRawWrite
  \/ RelayDone

\* A callback that was called keeps running: its loop takes its next pass
\* and its return is taken. Nothing obliges the engine to call.
SpecRelayLive ==
  /\ Init
  /\ [][LiveNext]_vars
  /\ WF_vars(LiveRawRead)
  /\ WF_vars(LiveRawWrite)
  /\ WF_vars(RelayDone)

\* C14: every call of _SSLReadFunction returns, whatever each read()
\* returns: bytes, zero bytes without error (the peer has closed), EAGAIN or
\* another error. (The claim says the same of _SSLWriteFunction, whose loop has
\* the same shape, and of irssi_ssl_handshake, which makes one select() with
\* a zero timeout and runs straight to a return: one step of Spec.)
C14_RelayReadReturns == (rpc = "read") ~> (rpc = "idle")

\* C15: when net_connect_ip_ssl has returned, every context that was
\* created is owned by the channel returned, undisposed, or has been disposed
\* exactly once; and when it returned NULL the raw channel that was made has
\* been released exactly once.
C15_OpenOwnsOrDisposes ==
  /\ openRet = "channel" /\ chan = "live" =>
       ctxCreated = 1 /\ ctxDisposed = 0 /\ rawCreated = 1 /\ rawReleased = 0
  /\ openRet = "NULL" =>
       ctxDisposed = ctxCreated /\ rawReleased = rawCreated

\* A run of irssi_ssl_handshake in which SSLHandshake failed for good, and one
\* in which the trust panel refused the peer's chain.
HardFailure(t) == t.step \notin {"none", "noErr", "errSSLWouldBlock"}
TrustRejected(t) == t.nPanel = 1 /\ t.code # 1

\* C16: the value irssi_ssl_handshake returns when SSLHandshake fails for
\* good differs from every value it returns when the trust panel refuses the
\* chain, so that the caller can tell the two failures apart.
C16_FailureReasonsDistinct ==
  (LastIs("handshake") /\ HardFailure(last)) =>
    \A e \in {"new", "handshaking", "connected"} :
      \A t \in HandshakeTraces(e) : TrustRejected(t) => t.ret # last.ret

\* C17: every write() made by _SSLWriteFunction is offered min(4096,
\* remaining) bytes starting at the offset reached, remaining being the
\* length less the bytes already taken: at least one byte, never more than
\* 4096, never past the end of the buffer; no write() follows an EAGAIN or
\* another failure within the call, and a call that returns noErr has had
\* all its bytes taken.
C17_BoundedChunks ==
  rfn = "write" =>
    /\ \A i \in 1..Len(rcalls) :
         LET c == rcalls[i]
             remaining == (rbase + rreq) - c.off
         IN  /\ c.off = Accepted(SubSeq(rcalls, 1, i - 1))
             /\ c.asked = Min(ChunkMax, remaining)
             /\ 1 <= c.asked /\ c.asked <= ChunkMax
             /\ c.off + c.asked <= rbase + rreq
             /\ (i < Len(rcalls) /\ c.res = -1) => rcalls[i + 1].call > c.call
    /\ (rpc = "idle" /\ rstatus = "noErr") => Accepted(CallOps(rcallNo)) = rreq

\* A buffer of two full chunks and one byte written in three write() calls.
C17_Witness ==
  /\ Returned("write")
  /\ rstatus = "noErr"
  /\ rcallNo = 1
  /\ rreq = 2 * ChunkMax + 1
  /\ Len(rcalls) = 3
  /\ rcalls[1].asked = ChunkMax
  /\ rcalls[2].asked = ChunkMax
  /\ rcalls[3].asked = 1

\* The result of a handshake as the function of the probe, the engine's
\* step, the retrieval and evaluation of the chain, the validation outcome and
\* the panel's answer that the claims describe; nothing else enters it.
HandshakeDecision(t) ==
  IF t.sel.ret < 1
    THEN (IF t.sel.ret = 0 \/ t.sel.errno = "EAGAIN" THEN 3 ELSE -1)
  ELSE IF t.step = "errSSLWouldBlock" THEN 1
  ELSE IF t.step # "noErr" THEN -1
  ELSE IF t.copy # "noErr" \/ t.eval # "noErr" THEN -1
  ELSE IF t.trust \in AcceptableTrust THEN 0
  ELSE IF t.code = 1 THEN 0
  ELSE -1

\* C18: whatever channel->verify is, irssi_ssl_handshake returns
\* HandshakeDecision of what it met; after a successful SSLHandshake it
\* retrieves and evaluates the peer's trust, asks the panel for every outcome
\* outside the acceptable classes, and returns -1 when the panel refuses.
C18_VerifyFlagIgnored ==
  \A v \in BOOLEAN :
    (cverify = v /\ LastIs("handshake")) =>
      /\ last.ret = HandshakeDecision(last)
      /\ last.step = "noErr" => last.nCopy = 1
      /\ (last.step = "noErr" /\ last.copy = "noErr") => last.nEval = 1
      /\ (last.eval = "noErr" /\ last.trust \notin AcceptableTrust) =>
           /\ last.nPanel = 1
           /\ last.code # 1 => last.ret = -1

\* A channel opened with verify = FALSE whose handshake asked the panel about
\* a denied chain and failed on its refusal.
C18_Witness ==
  /\ chan = "live"
  /\ ~cverify
  /\ LastIs("handshake")
  /\ last.trust = "kSecTrustResultDeny"
  /\ last.nPanel = 1
  /\ last.code = 0
  /\ last.ret = -1

\* C19: an invocation of irssi_ssl_handshake calls SSLCopyPeerTrust at most
\* once and only after SSLHandshake returned noErr to it; when the call gave
\* it a trust object it releases the object exactly once before it returns,
\* whether the evaluation failed, the chain was accepted at once, or the panel
\* accepted or refused it; an invocation that returns 1 or 3, or in which
\* SSLHandshake or SSLCopyPeerTrust failed, holds no trust object and
\* releases none.
C19_TrustObjectReleasedOnce ==
  LastIs("handshake") =>
    /\ last.nCopy <= 1
    /\ last.nCopy = 1 => last.step = "noErr"
    /\ last.step = "noErr" => last.nCopy = 1
    /\ last.copy = "noErr" => last.nRelease = 1
    /\ last.copy # "noErr" => last.nRelease = 0
    /\ (InProgress(last.ret) \/ last.step # "noErr") =>
         last.nCopy = 0 /\ last.nRelease = 0

\* The panel refused a chain that needed confirmation, and the trust object
\* was released.
C19_Witness ==
  /\ LastIs("handshake")
  /\ last.trust = "kSecTrustResultConfirm"
  /\ last.nPanel = 1
  /\ last.code = -1
  /\ last.ret = -1
  /\ last.nRelease = 1

\* C20: a call of _SSLReadFunction or _SSLWriteFunction that returns
\* errSSLInternal leaves *dataLength at the length that was asked for,
\* however many bytes the call had transferred; a call that returns noErr or
\* errSSLWouldBlock has written the count of bytes it transferred to
\* *dataLength.
C20_ErrorLeavesLength ==
  (Returned("read") \/ Returned("write")) =>
    /\ rstatus = "errSSLInternal" => rdataLength = rreq
    /\ rstatus \in {"noErr", "errSSLWouldBlock"} =>
         rdataLength = Accepted(CallOps(rcallNo))

\* A write that failed after the descriptor had taken part of the buffer.
C20_Witness ==
  /\ Returned("write")
  /\ rstatus = "errSSLInternal"
  /\ Accepted(CallOps(rcallNo)) > 0
  /\ Accepted(CallOps(rcallNo)) < rreq
  /\ rdataLength = rreq

====
